---------------------------- MODULE Spec2Model ----------------------------
(* A model of lnav's view_curses.cc: the attributed line (attr_line_t)     *)
(* operations insert, subline and split_lines, the line renderer           *)
(* view_curses::mvwattrline and the colour-pair registry view_colors.      *)
EXTENDS Integers, Sequences, FiniteSets, TLC

VARIABLES
    al,       \* the attr_line_t under manipulation: [al_string, al_attrs]
    call,     \* the last call made on it: operation, receiver and arguments
    ret,      \* the lines the last call returned (subline, split_lines)
    ensured,  \* FALSE when the last call tripped subline's ensure()
    nops,     \* number of calls made so far
    window,   \* the row mvwattrline draws on, with the renderer's bookkeeping
    vc,       \* the view_colors singleton: role table, vc_color_pair_end
    curses,   \* the terminal's capabilities and its colour pairs
    lnav_config  \* the settings the colour registry reads

vars == <<al, call, ret, ensured, nops, window, vc, curses, lnav_config>>

-----------------------------------------------------------------------------
(* Bounds of the model.                                                     *)

MaxLen == 3
MaxFrag == 1
SeqLen == 1
MaxOps == 2
MaxWrapSteps == 12
MaxGlyphs == 2
MaxStart == 2
MaxWidth == 4
MaxX == 1
MaxColorOps == 3

-----------------------------------------------------------------------------
(* Small helpers.                                                           *)

Max(a, b) == IF a > b THEN a ELSE b
Min(a, b) == IF a < b THEN a ELSE b

\* The byte at 0-based offset i of a std::string.
At(str, i) == str[i + 1]

\* std::string::substr(pos, n): n is clamped to the end of the string.
substr(str, pos, n) == SubSeq(str, pos + 1, Min(pos + n, Len(str)))

\* std::string::insert(pos, other).
str_insert(str, pos, other) ==
    SubSeq(str, 1, pos) \o other \o SubSeq(str, pos + 1, Len(str))

\* std::string::erase(pos, n).
str_erase(str, pos, n) ==
    SubSeq(str, 1, pos) \o SubSeq(str, Min(pos + n, Len(str)) + 1, Len(str))

\* std::string(n, ch).
Repeat(n, ch) == [i \in 1..n |-> ch]

\* std::string::npos, as the signed value the code compares it with.
npos == -1

\* std::string::find(ch, pos): the first occurrence at or after pos, or npos.
RECURSIVE find(_, _, _)
find(str, ch, pos) ==
    IF pos >= Len(str) THEN npos
    ELSE IF At(str, pos) = ch THEN pos
    ELSE find(str, ch, pos + 1)

\* std::string::rfind(ch, pos): the last occurrence at or before pos, or npos.
RECURSIVE rfind(_, _, _)
rfind(str, ch, pos) ==
    IF pos < 0 THEN npos
    ELSE IF pos < Len(str) /\ At(str, pos) = ch THEN pos
    ELSE rfind(str, ch, Min(pos, Len(str)) - 1)

-----------------------------------------------------------------------------
(* line_range (attr_line.hh, not part of the sources at hand): modelled    *)
(* from the data model of the specification.                                *)

line_range(s, e) == [lr_start |-> s, lr_end |-> e]

\* The end of a range once the -1 sentinel is replaced by `len`.
resolved_end(lr, len) == IF lr.lr_end = -1 THEN len ELSE lr.lr_end

\* Overlap test: the two half-open ranges share at least one position.
intersects(lr, other) ==
    LET s == Max(lr.lr_start, other.lr_start)
    IN  /\ lr.lr_end = -1 \/ s < lr.lr_end
        /\ other.lr_end = -1 \/ s < other.lr_end

\* Intersection of two ranges; an open end takes the other range's end.
intersection(lr, other) ==
    line_range(Max(lr.lr_start, other.lr_start),
               IF lr.lr_end = -1 THEN other.lr_end
               ELSE IF other.lr_end = -1 THEN lr.lr_end
               ELSE Min(lr.lr_end, other.lr_end))

\* Shift-by-offset: the endpoints at or after `start` move by `amount`; the
\* range stays within start >= 0 and end >= start, an open end stays open.
shift(lr, start, amount) ==
    LET s == IF lr.lr_start >= start
             THEN Max(0, lr.lr_start + amount) ELSE lr.lr_start
        e == IF lr.lr_end # -1 /\ start <= lr.lr_end
             THEN Max(lr.lr_end + amount, s) ELSE lr.lr_end
    IN  line_range(s, e)

string_attr(lr, type, value) ==
    [sa_range |-> lr, sa_type |-> type, sa_value |-> value]

\* shift_string_attrs(sa, start, amount): shifts every attribute's range.
shift_string_attrs(sa, start, amount) ==
    [i \in 1..Len(sa) |->
        [sa[i] EXCEPT !.sa_range = shift(sa[i].sa_range, start, amount)]]

attr_line(str, attrs) == [al_string |-> str, al_attrs |-> attrs]

\* attr_line_t::insert(index, len, ch): in-place insertion of len copies of ch.
insert_ch(line, index, len, ch) ==
    attr_line(str_insert(line.al_string, index, Repeat(len, ch)),
              shift_string_attrs(line.al_attrs, index, len))

\* attr_line_t::erase(pos, len): in-place erasure.
erase(line, pos, len) ==
    attr_line(str_erase(line.al_string, pos, len),
              shift_string_attrs(line.al_attrs, pos, -len))

-----------------------------------------------------------------------------
(* attr_line_t::insert, view_curses.cc:240-341.                             *)

\* The characters the word scan of the wrap pass runs over (lines 283-287).
isalnum(ch) == ch \in {"a", "b", "0"}
IsWordChar(ch) == isalnum(ch) \/ ch \in {",", "_", ".", ";"}

\* spliced_attrs closing an open end at the fragment's own length.
spliced_attrs_end_unshifted(index, other) ==
    [i \in 1..Len(other.al_attrs) |->
        LET lr == shift(other.al_attrs[i].sa_range, 0, index)
        IN  [other.al_attrs[i] EXCEPT !.sa_range =
                IF lr.lr_end = -1
                THEN line_range(lr.lr_start, Len(other.al_string))
                ELSE lr]]

\* Lines 248-257: other's attributes, moved to index, an open end closed.
spliced_attrs(index, other) ==
    [i \in 1..Len(other.al_attrs) |->
        LET lr == shift(other.al_attrs[i].sa_range, 0, index)
        IN  [other.al_attrs[i] EXCEPT !.sa_range =
                IF lr.lr_end = -1
                THEN line_range(lr.lr_start, index + Len(other.al_string))
                ELSE lr]]

\* splice shifting the attributes whatever the index.
splice_always_shift(line, index, other) ==
    attr_line(str_insert(line.al_string, index, other.al_string),
              shift_string_attrs(line.al_attrs, index, Len(other.al_string))
                  \o spliced_attrs(index, other))

\* Lines 242-257: the splice, before any wrapping.
splice(line, index, other) ==
    attr_line(str_insert(line.al_string, index, other.al_string),
              (IF index < Len(line.al_string)
               THEN shift_string_attrs(line.al_attrs, index, Len(other.al_string))
               ELSE line.al_attrs) \o spliced_attrs(index, other))

\* Lines 281-294: the end of the word (or breakpoint) starting at lpc.
RECURSIVE word_end(_, _)
word_end(str, lpc) ==
    IF lpc < Len(str) /\ IsWordChar(At(str, lpc))
    THEN IF At(str, lpc) \in {"-", "."} THEN lpc + 1
         ELSE word_end(str, lpc + 1)
    ELSE lpc

\* Lines 298-300 and 321-323: a newline and the indent go in at start_pos.
break_line(line, start_pos, tws) ==
    insert_ch(insert_ch(line, start_pos, 1, "\n"),
              start_pos + 1, tws.tws_indent, " ")

\* Lines 305-318: consume what follows the word while room is left.
RECURSIVE trailing(_, _, _, _)
trailing(line, lpc, avail, tws) ==
    IF lpc < Len(line.al_string) /\ avail # 0
    THEN IF At(line.al_string, lpc) = "\n"
         THEN [line |-> insert_ch(line, lpc + 1, tws.tws_indent, " "),
               lpc |-> lpc + 1 + tws.tws_indent,
               avail |-> tws.tws_width - tws.tws_indent]
         ELSE IF isalnum(At(line.al_string, lpc)) \/ At(line.al_string, lpc) = "_"
         THEN [line |-> line, lpc |-> lpc, avail |-> avail]
         ELSE trailing(line, lpc + 1, avail - 1, tws)
    ELSE [line |-> line, lpc |-> lpc, avail |-> avail]

\* Lines 326-330: the end of the run of spaces starting at lpc.
RECURSIVE skip_spaces(_, _)
skip_spaces(str, lpc) ==
    IF lpc < Len(str) /\ At(str, lpc) = " " THEN skip_spaces(str, lpc + 1)
    ELSE lpc

\* Lines 278-336: one iteration of the wrap loop.
wrap_step(w, tws) ==
    LET usable_width == tws.tws_width - tws.tws_indent
        lpc == word_end(w.line.al_string, w.start_pos)
    IN  IF w.avail # usable_width /\ lpc - w.start_pos > w.avail
        THEN [line |-> break_line(w.line, w.start_pos, tws),
              start_pos |-> w.start_pos + 1 + tws.tws_indent,
              avail |-> tws.tws_width - tws.tws_indent,
              breaks |-> w.breaks + 1]
        ELSE LET t == trailing(w.line, lpc, w.avail - (lpc - w.start_pos), tws)
             IN  IF t.avail # 0
                 THEN [line |-> t.line, start_pos |-> t.lpc,
                       avail |-> t.avail, breaks |-> w.breaks]
                 ELSE LET b == break_line(t.line, t.lpc, tws)
                          sp == t.lpc + 1 + tws.tws_indent
                          e == skip_spaces(b.al_string, sp)
                      IN  [line |-> IF e # sp THEN erase(b, sp, e - sp) ELSE b,
                           start_pos |-> sp,
                           avail |-> usable_width,
                           breaks |-> w.breaks + 1]

\* Lines 277-337: the wrap loop; done is FALSE when it is still running
\* after `fuel` iterations.
RECURSIVE wrap_loop(_, _, _)
wrap_loop(w, tws, fuel) ==
    IF w.start_pos >= Len(w.line.al_string)
    THEN [line |-> w.line, breaks |-> w.breaks, done |-> TRUE]
    ELSE IF fuel = 0
    THEN [line |-> w.line, breaks |-> w.breaks, done |-> FALSE]
    ELSE wrap_loop(wrap_step(w, tws), tws, fuel - 1)

INT_MAX == 2147483647

\* No text_wrap_settings given (tws == nullptr).
NoWrap == [present |-> FALSE, tws_width |-> 0, tws_indent |-> 0]

text_wrap_settings(width, indent) ==
    [present |-> TRUE, tws_width |-> width, tws_indent |-> indent]

\* Lines 259-275: where the line of `index` starts and the room left on it.
wrap_start(str, index, tws) ==
    LET found == rfind(str, "\n", index)
        line_start == IF found = npos THEN 0 ELSE found + 1
        line_len == index - line_start
        avail == Max(0, tws.tws_width - line_len)
    IN  [start_pos |-> index,
         avail |-> IF avail = 0 THEN INT_MAX ELSE avail]

\* attr_line_t::insert(index, al, tws): the resulting line, the number of
\* newlines the wrap pass put in, and whether the wrap pass came to its end.
insert(line, index, other, tws) ==
    LET s == splice(line, index, other)
    IN  IF tws.present /\ Len(s.al_string) > tws.tws_width
        THEN LET w0 == wrap_start(s.al_string, index, tws)
             IN  wrap_loop([line |-> s, start_pos |-> w0.start_pos,
                            avail |-> w0.avail, breaks |-> 0],
                           tws, MaxWrapSteps)
        ELSE [line |-> s, breaks |-> 0, done |-> TRUE]

-----------------------------------------------------------------------------
(* attr_line_t::subline, view_curses.cc:343-368.                            *)

\* Line 364: ensure(last_lr.lr_end <= retval.al_string.length()); the int
\* is compared as a size_t, so a negative end is never within the length.
ensure_end(lr, str) == lr.lr_end >= 0 /\ lr.lr_end <= Len(str)

\* subline_attrs leaving the ranges at their offsets in the source line.
subline_attrs_unshifted(line, lr) ==
    LET kept == SelectSeq(line.al_attrs,
                          LAMBDA sa : intersects(lr, sa.sa_range))
    IN  [i \in 1..Len(kept) |->
            string_attr(intersection(lr, kept[i].sa_range),
                        kept[i].sa_type, kept[i].sa_value)]

\* Lines 353-365: the attributes of the extracted window.
subline_attrs(line, lr) ==
    LET kept == SelectSeq(line.al_attrs,
                          LAMBDA sa : intersects(lr, sa.sa_range))
    IN  [i \in 1..Len(kept) |->
            string_attr(shift(intersection(lr, kept[i].sa_range),
                              lr.lr_start, -lr.lr_start),
                        kept[i].sa_type, kept[i].sa_value)]

\* subline with a window that is open at its end.
subline_open_window(line, start, len) ==
    LET n == IF len = npos THEN Len(line.al_string) - start ELSE len
        lr == line_range(start, -1)
        str == substr(line.al_string, start, n)
        attrs == subline_attrs(line, lr)
    IN  [line |-> attr_line(str, attrs),
         ensured |-> \A i \in 1..Len(attrs) : ensure_end(attrs[i].sa_range, str)]

\* The line returned and whether every ensure() passed.
subline(line, start, len) ==
    LET n == IF len = npos THEN Len(line.al_string) - start ELSE len
        lr == line_range(start, start + n)
        str == substr(line.al_string, start, n)
        attrs == subline_attrs(line, lr)
    IN  [line |-> attr_line(str, attrs),
         ensured |-> \A i \in 1..Len(attrs) : ensure_end(attrs[i].sa_range, str)]

-----------------------------------------------------------------------------
(* attr_line_t::split_lines, view_curses.cc:370-379.                        *)

RECURSIVE split_from(_, _)
split_from(line, pos) ==
    LET next_line == find(line.al_string, "\n", pos)
    IN  IF next_line # npos
        THEN <<subline(line, pos, next_line - pos)>> \o split_from(line, next_line + 1)
        ELSE <<subline(line, pos, npos)>>

\* split_lines without the empty entry after a final newline.
split_lines_no_trailing(line) ==
    LET r == split_from(line, 0)
    IN  IF Len(r) > 1 /\ r[Len(r)].line.al_string = <<>>
        THEN SubSeq(r, 1, Len(r) - 1) ELSE r

split_lines(line) == split_from(line, 0)

-----------------------------------------------------------------------------
(* The attributed lines a caller can hold.                                  *)

\* Bytes of the lines of Spec and of SpecCall.
Chars == {"a", " ", "\n"}
CallChars == {"a", "\n"}

Strings(chars, n) == UNION {[1..k -> chars] : k \in 0..n}

\* Ranges within a string of length len: start >= 0, end == -1 or end >= start.
Ranges(len) ==
    {lr \in {line_range(s, e) : s \in 0..len, e \in -1..len} :
        lr.lr_end = -1 \/ lr.lr_start <= lr.lr_end}

STYLE == string_attr(line_range(0, 0), "style", 1)
FOREGROUND == string_attr(line_range(0, 0), "foreground", 2)

\* An attribute of the kind and value of `proto` over the range lr.
Attr(proto, lr) == [proto EXCEPT !.sa_range = lr]

\* Lines of up to n bytes with at most one attribute.
Lines(chars, n) ==
    UNION {{attr_line(str, attrs) :
                attrs \in {<<>>} \cup {<<Attr(STYLE, lr)>> : lr \in Ranges(Len(str))}} :
           str \in Strings(chars, n)}

\* Lines of up to n bytes with at most two attributes.
Lines2(chars, n) ==
    Lines(chars, n) \cup
    UNION {{attr_line(str, <<Attr(STYLE, a), Attr(FOREGROUND, b)>>) :
                a \in Ranges(Len(str)), b \in Ranges(Len(str))} :
           str \in Strings(chars, n)}

\* The fragments a caller inserts.
Fragments ==
    UNION {{attr_line(str, attrs) :
                attrs \in {<<>>} \cup
                    {<<Attr(FOREGROUND, lr)>> :
                        lr \in {line_range(0, -1), line_range(0, Len(str))}}} :
           str \in Strings(CallChars, MaxFrag)}

\* The fragments the calls of Spec insert.
SeqFragments ==
    {attr_line(<<"a">>, <<>>),
     attr_line(<<" ">>, <<Attr(FOREGROUND, line_range(0, -1))>>),
     attr_line(<<"\n">>, <<Attr(FOREGROUND, line_range(0, 1))>>)}

\* The invariant of an attributed line (AttributedLine, LineRange).
ValidLine(line) ==
    \A i \in 1..Len(line.al_attrs) :
        LET lr == line.al_attrs[i].sa_range
        IN  /\ lr.lr_start >= 0
            /\ lr.lr_start <= resolved_end(lr, Len(line.al_string))
            /\ resolved_end(lr, Len(line.al_string)) <= Len(line.al_string)

\* Wrap settings with room for at least one byte after the indent.
WrapConfigs == {text_wrap_settings(1, 0), text_wrap_settings(2, 1)}

NoLine == attr_line(<<>>, <<>>)

Call(op, self, index, len, other, tws, breaks) ==
    [op |-> op, self |-> self, index |-> index, len |-> len,
     other |-> other, tws |-> tws, breaks |-> breaks]

NoCall == Call("init", NoLine, 0, 0, NoLine, NoWrap, 0)

-----------------------------------------------------------------------------
(* The colour registry: the xterm palette (view_curses.cc:85-131), the      *)
(* curses colour pairs and view_colors (view_curses.cc:614-789).            *)

\* The curses colour numbers the code names.
COLOR_BLACK == 0
COLOR_RED == 1
COLOR_GREEN == 2
COLOR_YELLOW == 3
COLOR_BLUE == 4
COLOR_MAGENTA == 5
COLOR_CYAN == 6
COLOR_WHITE == 7

\* An attr_t: the style bits and the number of the colour pair it refers to.
attr_t(bits, pair) == [bits |-> bits, pair |-> pair]

\* COLOR_PAIR(n): the attr_t that refers to pair n and sets no style bit.
COLOR_PAIR(n) == attr_t({}, n)

\* attr | bits
attr_or(attr, bits) == [attr EXCEPT !.bits = @ \cup bits]

\* The 8x8 grid of ANSI pairs: the pair of (fg, bg) and the end of the grid.
VC_ANSI_END == 8 * 8
ansi_color_pair_index(fg, bg) == (fg * 8) + bg
ansi_color_pair(fg, bg) == COLOR_PAIR(ansi_color_pair_index(fg, bg))

\* rgb_color, and the empty colour ("no colour specified").
rgb_color(r, g, b) == [rc_r |-> r, rc_g |-> g, rc_b |-> b]
EmptyColor == rgb_color(-1, -1, -1)
empty(rgb) == rgb.rc_r = -1 /\ rgb.rc_g = -1 /\ rgb.rc_b = -1

xterm_color(id, name, rgb) == [xc_id |-> id, xc_name |-> name, xc_color |-> rgb]

\* Entries of the palette table, in the table's order: the id is the
\* terminal's colour index; White and Grey100 have the same RGB value.
xc_palette ==
    <<xterm_color(0, "Black", rgb_color(0, 0, 0)),
      xterm_color(7, "Silver", rgb_color(192, 192, 192)),
      xterm_color(15, "White", rgb_color(255, 255, 255)),
      xterm_color(59, "Grey37", rgb_color(95, 95, 95)),
      xterm_color(231, "Grey100", rgb_color(255, 255, 255))>>

\* lab_color(rgb), lines 791-813, tabulated in hundredths for the grey
\* levels of the palette above (for a grey, a and b are 0 to two decimals).
lab_color(rgb) ==
    [lc_l |-> CASE rgb.rc_r = 0 -> 0
                [] rgb.rc_r = 95 -> 4032
                [] rgb.rc_r = 192 -> 7770
                [] rgb.rc_r = 255 -> 10000,
     lc_a |-> 0, lc_b |-> 0]

\* lab_color::deltaE, lines 815-831: with a = b = 0 on both sides the chroma
\* and hue terms vanish and the distance is sqrt(deltaL * deltaL).
deltaE(this, other) ==
    LET deltaL == this.lc_l - other.lc_l
    IN  IF deltaL < 0 THEN -deltaL ELSE deltaL

\* The loop of match_color with "<=" for "<": the last of equal entries wins.
RECURSIVE match_from_last_tie(_, _, _, _)
match_from_last_tie(to_match, i, lowest, lowest_id) ==
    IF i > Len(xc_palette) THEN lowest_id
    ELSE LET xc == xc_palette[i]
             xc_delta == deltaE(lab_color(xc.xc_color), to_match)
         IN  IF lowest_id = -1 \/ xc_delta <= lowest
             THEN match_from_last_tie(to_match, i + 1, xc_delta, xc.xc_id)
             ELSE match_from_last_tie(to_match, i + 1, lowest, lowest_id)

\* The loop of _xterm_colors::match_color from entry i on.
RECURSIVE match_from(_, _, _, _)
match_from(to_match, i, lowest, lowest_id) ==
    IF i > Len(xc_palette) THEN lowest_id
    ELSE LET xc == xc_palette[i]
             xc_delta == deltaE(lab_color(xc.xc_color), to_match)
         IN  IF lowest_id = -1 \/ xc_delta < lowest
             THEN match_from(to_match, i + 1, xc_delta, xc.xc_id)
             ELSE match_from(to_match, i + 1, lowest, lowest_id)

\* _xterm_colors::match_color(to_match): lowest starts at 1000.0.
match_color(to_match) == match_from(to_match, 1, 1000 * 100, -1)

\* rgb_color::from_str(name): the colour of the first entry of that name.
from_str(name) ==
    LET i == CHOOSE i \in 1..Len(xc_palette) :
                /\ xc_palette[i].xc_name = name
                /\ \A j \in 1..(i - 1) : xc_palette[j].xc_name # name
    IN  xc_palette[i].xc_color

\* init_pair(pair, fg, bg) on the curses state cs.
init_pair(cs, pair, fg, bg) ==
    [cs EXCEPT !.pairs = [p \in DOMAIN cs.pairs \cup {pair} |->
                            IF p = pair THEN <<fg, bg>> ELSE cs.pairs[p]]]

\* attr_for_colors(pair_base, fg, bg), lines 698-718: the attribute returned,
\* pair_base (passed by reference) and the curses state after the call;
\* allocs logs the slots this function hands to init_pair.
attr_for_colors(cs, cfg, pair_base, fg, bg) ==
    IF cs.COLOR_PAIRS <= 64
    THEN [attr |-> ansi_color_pair(fg, bg), pair_base |-> pair_base, curses |-> cs]
    ELSE LET fg2 == IF cfg.lc_ui_default_colors /\ fg = COLOR_WHITE THEN -1 ELSE fg
             bg2 == IF cfg.lc_ui_default_colors /\ bg = COLOR_BLACK THEN -1 ELSE bg
             pair == pair_base + 1
         IN  [attr |-> COLOR_PAIR(pair),
              pair_base |-> pair,
              curses |-> [init_pair(cs, pair, fg2, bg2) EXCEPT
                            !.allocs = Append(@, pair)]]

\* The roles init_roles sets, in its order: "colors" is an attr_for_colors
\* call or'ed with bits, "ensure" the ensure_color_pair call of line 758.
role_color(role, how, fg, bg, bits) ==
    [role |-> role, how |-> how, fg |-> fg, bg |-> bg, bits |-> bits]

role_colors ==
    <<role_color("VCR_TEXT", "text", COLOR_WHITE, COLOR_BLACK, {}),
      role_color("VCR_SEARCH", "search", 0, 0, {"A_REVERSE"}),
      role_color("VCR_OK", "colors", COLOR_GREEN, COLOR_BLACK, {"A_BOLD"}),
      role_color("VCR_ERROR", "colors", COLOR_RED, COLOR_BLACK, {"A_BOLD"}),
      role_color("VCR_WARNING", "colors", COLOR_YELLOW, COLOR_BLACK, {"A_BOLD"}),
      role_color("VCR_ALT_ROW", "alt_row", 0, 0, {"A_BOLD"}),
      role_color("VCR_HIDDEN", "colors", COLOR_YELLOW, COLOR_BLACK, {}),
      role_color("VCR_ADJUSTED_TIME", "colors", COLOR_MAGENTA, COLOR_BLACK, {}),
      role_color("VCR_SKEWED_TIME", "colors", COLOR_YELLOW, COLOR_BLACK, {"A_UNDERLINE"}),
      role_color("VCR_OFFSET_TIME", "colors", COLOR_CYAN, COLOR_BLACK, {}),
      role_color("VCR_STATUS", "colors", COLOR_BLACK, COLOR_WHITE, {}),
      role_color("VCR_WARN_STATUS", "colors", COLOR_YELLOW, COLOR_WHITE, {"A_BOLD"}),
      role_color("VCR_ALERT_STATUS", "colors", COLOR_RED, COLOR_WHITE, {"A_BOLD"}),
      role_color("VCR_ACTIVE_STATUS", "colors", COLOR_GREEN, COLOR_WHITE, {}),
      role_color("VCR_ACTIVE_STATUS2", "colors", COLOR_GREEN, COLOR_WHITE, {"A_BOLD"}),
      role_color("VCR_BOLD_STATUS", "colors", COLOR_BLACK, COLOR_WHITE, {"A_BOLD"}),
      role_color("VCR_VIEW_STATUS", "colors", COLOR_WHITE, COLOR_BLUE, {"A_BOLD"}),
      role_color("VCR_INACTIVE_STATUS", "ensure", 0, 0, {}),
      role_color("VCR_POPUP", "colors", COLOR_WHITE, COLOR_CYAN, {"A_BOLD"}),
      role_color("VCR_KEYWORD", "colors", COLOR_BLUE, COLOR_BLACK, {}),
      role_color("VCR_STRING", "colors", COLOR_GREEN, COLOR_BLACK, {"A_BOLD"}),
      role_color("VCR_COMMENT", "colors", COLOR_GREEN, COLOR_BLACK, {}),
      role_color("VCR_VARIABLE", "colors", COLOR_CYAN, COLOR_BLACK, {}),
      role_color("VCR_SYMBOL", "colors", COLOR_MAGENTA, COLOR_BLACK, {}),
      role_color("VCR_RE_SPECIAL", "colors", COLOR_CYAN, COLOR_BLACK, {}),
      role_color("VCR_RE_REPEAT", "colors", COLOR_YELLOW, COLOR_BLACK, {}),
      role_color("VCR_FILE", "colors", COLOR_BLUE, COLOR_BLACK, {}),
      role_color("VCR_DIFF_DELETE", "colors", COLOR_RED, COLOR_BLACK, {}),
      role_color("VCR_DIFF_ADD", "colors", COLOR_GREEN, COLOR_BLACK, {}),
      role_color("VCR_DIFF_SECTION", "colors", COLOR_MAGENTA, COLOR_BLACK, {}),
      role_color("VCR_LOW_THRESHOLD", "colors", COLOR_BLACK, COLOR_GREEN, {}),
      role_color("VCR_MED_THRESHOLD", "colors", COLOR_BLACK, COLOR_YELLOW, {}),
      role_color("VCR_HIGH_THRESHOLD", "colors", COLOR_BLACK, COLOR_RED, {})>>

Roles == {role_colors[i].role : i \in 1..Len(role_colors)}

\* The state a call on view_colors works on: the object, the curses state
\* and, within init_roles, the local color_pair_base.
colors_state(v, cs, base) == [vc |-> v, curses |-> cs, color_pair_base |-> base]

\* view_colors::ensure_color_pair(rgb_fg, rgb_bg), lines 783-789: the
\* attribute returned and the state after the call; the slot counter is the
\* member vc_color_pair_end.
ensure_color_pair(s, cfg, rgb_fg, rgb_bg) ==
    LET r == attr_for_colors(s.curses, cfg, s.vc.vc_color_pair_end,
                             match_color(lab_color(rgb_fg)),
                             IF empty(rgb_bg) THEN COLOR_BLACK
                             ELSE match_color(lab_color(rgb_bg)))
    IN  [attr |-> r.attr,
         state |-> [s EXCEPT !.vc.vc_color_pair_end = r.pair_base,
                             !.curses = r.curses]]

\* One assignment of init_roles: vc_role_colors[rc.role] = ...
set_role(s, cfg, rc) ==
    CASE rc.how \in {"text", "colors"} ->
            LET r == attr_for_colors(s.curses, cfg, s.color_pair_base, rc.fg, rc.bg)
                dim == IF rc.how = "text" /\ cfg.lc_ui_dim_text THEN {"A_DIM"} ELSE {}
            IN  [s EXCEPT !.vc.vc_role_colors[rc.role] = attr_or(r.attr, rc.bits \cup dim),
                          !.color_pair_base = r.pair_base,
                          !.curses = r.curses]
      [] rc.how = "search" ->
            [s EXCEPT !.vc.vc_role_colors[rc.role] = attr_t(rc.bits, 0)]
      [] rc.how = "alt_row" ->
            [s EXCEPT !.vc.vc_role_colors[rc.role] =
                        attr_or(s.vc.vc_role_colors["VCR_TEXT"], rc.bits)]
      [] rc.how = "ensure" ->
            LET r == ensure_color_pair(s, cfg, from_str("White"), from_str("Grey37"))
            IN  [r.state EXCEPT !.vc.vc_role_colors[rc.role] = r.attr]

\* The assignments of init_roles from the i-th on.
RECURSIVE set_roles(_, _, _)
set_roles(s, cfg, i) ==
    IF i > Len(role_colors) THEN s
    ELSE set_roles(set_role(s, cfg, role_colors[i]), cfg, i + 1)

\* view_colors::init_roles(color_pair_base), lines 720-781.
init_roles(v, cs, cfg, color_pair_base) ==
    LET s == set_roles(colors_state(v, cs, color_pair_base), cfg, 1)
    IN  [s EXCEPT !.vc.vc_color_pair_end = s.color_pair_base + 1]

\* The 8x8 grid but (0, 0), lines 667-675.
ansi_pairs ==
    [p \in {ansi_color_pair_index(fg, bg) : fg \in 0..7, bg \in 0..7} \ {0} |->
        <<p \div 8, p % 8>>]

\* The extended grid of a 256-colour terminal, lines 677-690: the k-th pair
\* initialised (k from 0) takes the colour of z, x, y in loop order.
extended_fg(k) ==
    LET z == k \div 9
        x == 1 + 2 * ((k % 9) \div 3)
        y == 1 + 2 * (k % 3)
    IN  16 + x + (y * 6) + (z * 6 * 6)

extended_count == 6 * 3 * 3

\* view_colors::init(), lines 646-696.
init(v, cs, cfg) ==
    LET grid == IF cs.has_colors
                THEN [cs EXCEPT !.pairs =
                        [p \in DOMAIN ansi_pairs \cup
                               (IF cs.COLORS = 256
                                THEN VC_ANSI_END..(VC_ANSI_END + extended_count - 1)
                                ELSE {}) |->
                            IF p < VC_ANSI_END THEN ansi_pairs[p]
                            ELSE <<extended_fg(p - VC_ANSI_END),
                                   IF cfg.lc_ui_default_colors THEN -1
                                   ELSE COLOR_BLACK>>]]
                ELSE cs
        color_pair_base == IF cs.has_colors /\ cs.COLORS = 256
                           THEN VC_ANSI_END + extended_count
                           ELSE VC_ANSI_END
        s == init_roles(v, grid, cfg, color_pair_base)
    IN  [s EXCEPT !.vc.initialized = TRUE]

\* The view_colors singleton as constructed: vc_color_pair_end(0), the role
\* table zero-initialised.
view_colors ==
    [vc_role_colors |-> [r \in Roles |-> attr_t({}, 0)],
     vc_color_pair_end |-> 0,
     initialized |-> FALSE]

\* A terminal as curses reports it, with no pair initialised yet.
terminal(has, colors, color_pairs) ==
    [has_colors |-> has, COLORS |-> colors, COLOR_PAIRS |-> color_pairs,
     pairs |-> <<>>, allocs |-> <<>>]

Terminals ==
    {terminal(FALSE, 0, 0), terminal(TRUE, 8, 64),
     terminal(TRUE, 88, 7744), terminal(TRUE, 256, 32767)}

config(default_colors, dim_text) ==
    [lc_ui_default_colors |-> default_colors, lc_ui_dim_text |-> dim_text]

Configs == {config(d, t) : d \in BOOLEAN, t \in BOOLEAN}

\* The colours a caller passes to ensure_color_pair.
ForegroundColors == {from_str("White"), from_str("Grey37")}
BackgroundColors == {EmptyColor, from_str("Black"), from_str("Grey37")}

\* view_colors::attrs_for_role(role).
attrs_for_role(v, role) == v.vc_role_colors[role]

-----------------------------------------------------------------------------
(* view_curses::mvwattrline, view_curses.cc:391-612.  A line is a sequence  *)
(* of bytes (0..255); the window is one row of cells, column 0 leftmost.    *)

VC_STYLE == "style"
VC_GRAPHIC == "graphic"
VC_FOREGROUND == "foreground"
VC_BACKGROUND == "background"

TAB == 9
LF == 10
CR == 13
SPACE == 32

\* Lines 448-454: the offset a lead byte of a UTF-8 sequence brings, by the
\* masks 0xf8/0xf0, 0xf0/0xe0 and 0xe0/0xc0.
utf8_offset(ch) ==
    IF ch \div 8 = 240 \div 8 THEN -3
    ELSE IF ch \div 16 = 224 \div 16 THEN -2
    ELSE IF ch \div 32 = 192 \div 32 THEN -1
    ELSE 0

utf_to_display_adjustment(utf_origin, offset) ==
    [uda_origin |-> utf_origin, uda_offset |-> offset]

\* The expansion pass, lines 421-467, from byte lpc on; st holds
\* expanded_line (exp_index is its length), utf_adjustments and exp_offset.
RECURSIVE expand(_, _, _)
expand(line, lpc, st) ==
    IF lpc >= Len(line) THEN st
    ELSE
    LET ch == At(line, lpc)
        exp_index == Len(st.expanded_line)
    IN  CASE ch = TAB ->
                LET n == 8 - (exp_index % 8)
                IN  expand(line, lpc + 1,
                        [st EXCEPT
                            !.expanded_line = @ \o Repeat(n, SPACE),
                            !.utf_adjustments =
                                Append(@, utf_to_display_adjustment(lpc, n - 1))])
          [] ch = CR -> expand(line, lpc + 1, st)
          [] ch = LF ->
                expand(line, lpc + 1,
                    [st EXCEPT !.expanded_line = Append(@, SPACE)])
          [] OTHER ->
                LET offset == utf8_offset(ch)
                    copied == Min(-offset, Len(line) - 1 - lpc)
                IN  IF offset = 0
                    THEN expand(line, lpc + 1,
                            [st EXCEPT !.expanded_line = Append(@, ch)])
                    ELSE expand(line, lpc + copied + 1,
                            [st EXCEPT
                                !.expanded_line =
                                    Append(@, ch) \o substr(line, lpc + 1, copied),
                                !.utf_adjustments =
                                    Append(@, utf_to_display_adjustment(lpc, offset)),
                                !.exp_offset = @ + offset])

expanded(line) ==
    expand(line, 0, [expanded_line |-> <<>>, utf_adjustments |-> <<>>,
                     exp_offset |-> 0])

\* Lines 498-510: v moved by every adjustment whose origin is before `bound`.
RECURSIVE adjust(_, _, _, _)
adjust(adjs, i, bound, v) ==
    IF i > Len(adjs) THEN v
    ELSE adjust(adjs, i + 1, bound,
                IF adjs[i].uda_origin < bound THEN v + adjs[i].uda_offset ELSE v)

\* Lines 486-517: the range of an attribute in columns of the visible window.
attr_range(sa, adjs, lr) ==
    LET line_width == lr.lr_end - lr.lr_start
        s == adjust(adjs, 1, sa.sa_range.lr_start, sa.sa_range.lr_start)
        e == IF sa.sa_range.lr_end # -1
             THEN adjust(adjs, 1, sa.sa_range.lr_end, sa.sa_range.lr_end)
             ELSE sa.sa_range.lr_end
        e2 == IF e = -1 THEN lr.lr_start + line_width ELSE e
    IN  line_range(Max(0, s - lr.lr_start), Min(line_width, e2 - lr.lr_start))

\* operator< of string_attr: by range start, then by range end.
attr_less(a, b) ==
    \/ a.sa_range.lr_start < b.sa_range.lr_start
    \/ /\ a.sa_range.lr_start = b.sa_range.lr_start
       /\ a.sa_range.lr_end < b.sa_range.lr_end

\* std::stable_sort(sa.begin(), sa.end()), line 484.
RECURSIVE stable_sort(_)
stable_sort(sa) ==
    IF Len(sa) <= 1 THEN sa
    ELSE LET rest == stable_sort(Tail(sa))
             k == Cardinality({i \in 1..Len(rest) : attr_less(rest[i], Head(sa))})
         IN  SubSeq(rest, 1, k) \o <<Head(sa)>> \o SubSeq(rest, k + 1, Len(rest))

\* A cell of the window: the bytes of its character and its attr_t.
cell(ch, attr) == [ch |-> ch, attr |-> attr]

\* The characters curses makes of a byte string: a lead byte takes its
\* continuation bytes along; a sequence cut short is not shown.
RECURSIVE glyphs(_)
glyphs(str) ==
    IF str = <<>> THEN <<>>
    ELSE LET n == 1 - utf8_offset(str[1])
         IN  IF n > Len(str) THEN <<>>
             ELSE <<SubSeq(str, 1, n)>> \o glyphs(SubSeq(str, n + 1, Len(str)))

\* A write of cell c at column col of a row; columns off the row are dropped.
put(cells, col, c) ==
    IF col \in 0..(Len(cells) - 1) THEN [cells EXCEPT ![col + 1] = c] ELSE cells

\* waddnstr(window, str, n) at column col with the attributes attrs on.
waddnstr(cells, col, attrs, str, n) ==
    LET gs == glyphs(substr(str, 0, n))
    IN  [i \in 1..Len(cells) |->
            IF i - 1 >= col /\ i - 1 < col + Len(gs)
            THEN cell(gs[i - col], attrs) ELSE cells[i]]

\* whline(window, ' ', n) at column col with the attributes attrs on.
whline(cells, col, attrs, n) ==
    [i \in 1..Len(cells) |->
        IF i - 1 >= col /\ i - 1 < col + n THEN cell(<<SPACE>>, attrs) ELSE cells[i]]

\* Lines 472-482: the text of the visible range in the attributes of the role.
base_paint(cells, x, lr, exp, text_attrs) ==
    LET full_line == exp.expanded_line
        line_width == lr.lr_end - lr.lr_start
        shown == IF lr.lr_start < Len(full_line)
                 THEN substr(full_line, lr.lr_start, line_width) ELSE <<>>
        text == waddnstr(cells, x, text_attrs, shown, line_width)
    IN  IF lr.lr_end > Len(full_line)
        THEN whline(text, x + Len(glyphs(shown)), text_attrs,
                    lr.lr_end - (Len(full_line) + exp.exp_offset))
        ELSE text

\* What the loop of lines 485-583 did for one attribute: its range in the
\* window, the columns (relative to x) whose cells it wrote and whether it
\* called std::fill on a colour array.
applied_attr(sa, range, cols, filled) ==
    [sa |-> sa, range |-> range, cols |-> cols, filled |-> filled]

\* Lines 519-526: a GRAPHIC attribute stamps its glyph on start..end-1.
graphic(st, sa, range, x) ==
    LET cols == range.lr_start..(range.lr_end - 1)
    IN  [st EXCEPT
            !.cells = [i \in 1..Len(@) |->
                        IF (i - 1) - x \in cols
                        THEN cell(<<sa.sa_value>>, attr_t({}, 0)) ELSE @[i]],
            !.applied = Append(@, applied_attr(sa, range, cols, FALSE))]

\* std::fill(color + start, color + end, value) on an array of line_width
\* entries.  With start > end the call is undefined: the build either
\* faults ("crash") or runs past the array ("overrun").
fill(color, range, value, ub) ==
    IF range.lr_start <= range.lr_end
    THEN [color |-> [i \in 1..Len(color) |->
                        IF i - 1 >= range.lr_start /\ i - 1 < range.lr_end
                        THEN value ELSE color[i]],
          crashed |-> FALSE, corrupted |-> FALSE]
    ELSE IF ub = "crash"
    THEN [color |-> color, crashed |-> TRUE, corrupted |-> FALSE]
    ELSE [color |-> [i \in 1..Len(color) |->
                        IF i - 1 >= range.lr_start THEN value ELSE color[i]],
          crashed |-> FALSE, corrupted |-> TRUE]

\* Lines 528-535: a FOREGROUND attribute fills fg_color.
foreground(st, sa, range, line_width, ub) ==
    LET r == fill(IF st.has_fg THEN st.fg_color ELSE Repeat(line_width, COLOR_WHITE),
                  range, sa.sa_value, ub)
    IN  [st EXCEPT
            !.fg_color = r.color,
            !.has_fg = TRUE,
            !.crashed = r.crashed,
            !.corrupted = @ \/ r.corrupted,
            !.applied = Append(@, applied_attr(sa, range, {}, TRUE))]

\* Lines 537-544: a BACKGROUND attribute fills bg_color.
background(st, sa, range, line_width, ub) ==
    LET r == fill(IF st.has_bg THEN st.bg_color ELSE Repeat(line_width, COLOR_BLACK),
                  range, sa.sa_value, ub)
    IN  [st EXCEPT
            !.bg_color = r.color,
            !.has_bg = TRUE,
            !.crashed = r.crashed,
            !.corrupted = @ \/ r.corrupted,
            !.applied = Append(@, applied_attr(sa, range, {}, TRUE))]

\* Lines 559-579: the attributes of a cell after a STYLE is laid over it.
styled(old, value) ==
    LET clear_rev == "A_REVERSE" \in old.bits /\ "A_REVERSE" \in value.bits
        new == IF value.pair > 0
               THEN attr_t(value.bits \cup old.bits, value.pair)
               ELSE attr_t(old.bits \cup value.bits, old.pair)
    IN  IF clear_rev THEN [new EXCEPT !.bits = @ \ {"A_REVERSE"}] ELSE new

\* style applied from the unclipped start of the attribute.
style_unadjusted(st, sa, range, x, line_width) ==
    LET from == sa.sa_range.lr_start
        cols == IF range.lr_end > range.lr_start
                THEN from..(from + (range.lr_end - range.lr_start) - 1) ELSE {}
    IN  [st EXCEPT
            !.cells = [i \in 1..Len(@) |->
                        IF (i - 1) - x \in cols
                        THEN [@[i] EXCEPT !.attr = styled(@, sa.sa_value)] ELSE @[i]],
            !.applied = Append(@, applied_attr(sa, range, cols, FALSE))]

\* Lines 546-582: a STYLE attribute rewrites the cells of its range.
style(st, sa, range, x, line_width) ==
    LET awidth == range.lr_end - range.lr_start
        ch_width == Min(awidth, line_width - range.lr_start)
        cols == IF /\ range.lr_end > range.lr_start
                   /\ (sa.sa_value.bits # {} \/ sa.sa_value.pair > 0)
                THEN range.lr_start..(range.lr_start + ch_width - 1) ELSE {}
    IN  [st EXCEPT
            !.cells = [i \in 1..Len(@) |->
                        IF (i - 1) - x \in cols
                        THEN [@[i] EXCEPT !.attr = styled(@, sa.sa_value)] ELSE @[i]],
            !.applied = Append(@, applied_attr(sa, range, cols, FALSE))]

\* One pass of the loop of lines 485-583.
apply_attr(st, sa, adjs, x, lr, ub) ==
    LET range == attr_range(sa, adjs, lr)
        line_width == lr.lr_end - lr.lr_start
    IN  CASE sa.sa_type = VC_GRAPHIC -> graphic(st, sa, range, x)
          [] sa.sa_type = VC_FOREGROUND -> foreground(st, sa, range, line_width, ub)
          [] sa.sa_type = VC_BACKGROUND -> background(st, sa, range, line_width, ub)
          [] sa.sa_type = VC_STYLE -> style(st, sa, range, x, line_width)
          [] OTHER -> st

\* The loop of lines 485-583 from the i-th attribute on; a fault ends it.
RECURSIVE apply_attrs(_, _, _, _, _, _, _)
apply_attrs(st, sa, i, adjs, x, lr, ub) ==
    IF i > Len(sa) \/ st.crashed THEN st
    ELSE apply_attrs(apply_attr(st, sa[i], adjs, x, lr, ub), sa, i + 1, adjs, x, lr, ub)

\* Lines 586-610: the colour pair of every cell of the visible range is set
\* from fg_color and bg_color; the cells are those from x + lr_start on.
flatten(st, x, lr) ==
    IF st.crashed \/ ~(st.has_fg \/ st.has_bg) THEN st
    ELSE
    LET ch_width == lr.lr_end - lr.lr_start
        fg == IF st.has_fg THEN st.fg_color ELSE Repeat(ch_width, COLOR_WHITE)
        bg == IF st.has_bg THEN st.bg_color ELSE Repeat(ch_width, COLOR_BLACK)
        x_pos == x + lr.lr_start
    IN  [st EXCEPT
            !.cells = [i \in 1..Len(@) |->
                        IF (i - 1) - x_pos \in 0..(ch_width - 1)
                        THEN [@[i] EXCEPT !.attr.pair =
                                ansi_color_pair_index(fg[i - x_pos], bg[i - x_pos])]
                        ELSE @[i]],
            !.flattened = (x_pos..(x_pos + ch_width - 1)) \cap (0..(Len(st.cells) - 1))]

\* The row of a window before anything is drawn on it.
blank_row(cols) == Repeat(cols, cell(<<SPACE>>, attr_t({}, 0)))

render_state(cells) ==
    [cells |-> cells, fg_color |-> <<>>, bg_color |-> <<>>,
     has_fg |-> FALSE, has_bg |-> FALSE, applied |-> <<>>, flattened |-> {},
     crashed |-> FALSE, corrupted |-> FALSE]

\* mvwattrline(window, y, x, al, lr, base_role) on the row `cells`: the row
\* and the bookkeeping after the call; al's attributes are left sorted.
mvwattrline(cells, x, line, lr, text_attrs, ub) ==
    LET exp == expanded(line.al_string)
        sa == stable_sort(line.al_attrs)
        painted == render_state(base_paint(cells, x, lr, exp, text_attrs))
    IN  flatten(apply_attrs(painted, sa, 1, exp.utf_adjustments, x, lr, ub), x, lr)

-----------------------------------------------------------------------------
(* The lines and the visible ranges a caller hands to mvwattrline.          *)

\* The byte sequences of single characters: 'a', tab, CR, LF and a 2-byte,
\* a 3-byte and a 4-byte UTF-8 character.
Glyphs ==
    {<<97>>, <<TAB>>, <<CR>>, <<LF>>, <<195, 169>>, <<226, 130, 172>>,
     <<240, 159, 152, 128>>}

RECURSIVE GlyphStrings(_)
GlyphStrings(n) ==
    IF n = 0 THEN {<<>>}
    ELSE LET shorter == GlyphStrings(n - 1)
         IN  shorter \cup {s \o g : s \in shorter, g \in Glyphs}

\* The kinds and values of the attributes of a rendered line; the last is
\* of a kind the renderer does not know.
RenderAttrs ==
    {string_attr(line_range(0, 0), VC_STYLE, attr_t({"A_REVERSE"}, 0)),
     string_attr(line_range(0, 0), VC_STYLE, attr_t({"A_BOLD"}, 3)),
     string_attr(line_range(0, 0), VC_GRAPHIC, 120),
     string_attr(line_range(0, 0), VC_FOREGROUND, COLOR_RED),
     string_attr(line_range(0, 0), VC_BACKGROUND, COLOR_BLUE),
     string_attr(line_range(0, 0), "logline", 0)}

\* Lines of up to n characters with no attribute, one attribute, or one
\* attribute followed by a background over the whole line.
RenderLines(n) ==
    UNION {LET one == {Attr(p, lr) : p \in RenderAttrs, lr \in Ranges(Len(str))}
           IN  {attr_line(str, attrs) :
                    attrs \in {<<>>} \cup {<<a>> : a \in one} \cup
                        {<<a, string_attr(line_range(0, -1), VC_BACKGROUND, COLOR_GREEN)>> :
                            a \in one}} :
           str \in GlyphStrings(n)}

VisibleRanges ==
    {line_range(s, s + w) : s \in 0..MaxStart, w \in 0..MaxWidth}

\* The row the line is drawn on, wide enough for every call of the model.
NoWindow == render_state(blank_row(MaxX + MaxStart + MaxWidth + 1))

-----------------------------------------------------------------------------
(* Spec: calls on a line, one after the other; each call works on the line  *)
(* the one before left.                                                     *)

Init ==
    /\ al \in Lines(Chars, SeqLen)
    /\ call = NoCall
    /\ ret = <<>>
    /\ ensured = TRUE
    /\ nops = 0
    /\ window = NoWindow
    /\ vc = view_colors
    /\ curses = terminal(TRUE, 8, 64)
    /\ lnav_config = config(FALSE, FALSE)

\* al.insert(index, other)
SeqInsert(index, other) ==
    /\ nops < MaxOps
    /\ index <= Len(al.al_string)
    /\ al' = insert(al, index, other, NoWrap).line
    /\ call' = Call("insert", NoLine, 0, 0, NoLine, NoWrap, 0)
    /\ nops' = nops + 1
    /\ UNCHANGED <<window, vc, curses, lnav_config>>
    /\ UNCHANGED <<ret, ensured>>

\* al.insert(index, other, &tws)
SeqInsertWrap(index, other, tws) ==
    LET r == insert(al, index, other, tws)
    IN  /\ nops < MaxOps
        /\ index <= Len(al.al_string)
        /\ r.done
        /\ al' = r.line
        /\ call' = Call("insert", NoLine, 0, 0, NoLine, tws, Min(r.breaks, 1))
        /\ nops' = nops + 1
        /\ UNCHANGED <<window, vc, curses, lnav_config>>
        /\ UNCHANGED <<ret, ensured>>

\* al = al.subline(start, len)
SeqSubline(start, len) ==
    LET r == subline(al, start, len)
    IN  /\ nops < MaxOps
        /\ start + len <= Len(al.al_string)
        /\ al' = r.line
        /\ call' = Call("subline", NoLine, 0, 0, NoLine, NoWrap, 0)
        /\ ensured' = (ensured /\ r.ensured)
        /\ nops' = nops + 1
        /\ UNCHANGED <<window, vc, curses, lnav_config>>
        /\ UNCHANGED ret

Next ==
    \/ \E index \in 0..Len(al.al_string), other \in SeqFragments :
            SeqInsert(index, other)
    \/ \E index \in 0..Len(al.al_string), other \in SeqFragments, tws \in WrapConfigs :
            SeqInsertWrap(index, other, tws)
    \/ \E start \in 0..Len(al.al_string), len \in 0..Len(al.al_string) :
            SeqSubline(start, len)

Spec == Init /\ [][Next]_vars

-----------------------------------------------------------------------------
(* SpecCall: one call on a line, with the receiver and the arguments kept.  *)

InitCall ==
    /\ al \in Lines2(CallChars, MaxLen)
    /\ call = NoCall
    /\ ret = <<>>
    /\ ensured = TRUE
    /\ nops = 0
    /\ window = NoWindow
    /\ vc = view_colors
    /\ curses = terminal(TRUE, 8, 64)
    /\ lnav_config = config(FALSE, FALSE)

\* al.insert(index, other)
Insert(index, other) ==
    /\ call.op = "init"
    /\ index <= Len(al.al_string)
    /\ al' = insert(al, index, other, NoWrap).line
    /\ call' = Call("insert", al, index, 0, other, NoWrap, 0)
    /\ ret' = <<>>
    /\ ensured' = TRUE
    /\ nops' = nops + 1
    /\ UNCHANGED <<window, vc, curses, lnav_config>>

\* ret = al.subline(start, len)
Subline(start, len) ==
    LET r == subline(al, start, len)
    IN  /\ call.op = "init"
        /\ start + len <= Len(al.al_string)
        /\ al' = al
        /\ call' = Call("subline", al, start, len, NoLine, NoWrap, 0)
        /\ ret' = <<r.line>>
        /\ ensured' = r.ensured
        /\ nops' = nops + 1
        /\ UNCHANGED <<window, vc, curses, lnav_config>>

\* al.split_lines(ret)
SplitLines ==
    LET r == split_lines(al)
    IN  /\ call.op = "init"
        /\ al' = al
        /\ call' = Call("split_lines", al, 0, 0, NoLine, NoWrap, 0)
        /\ ret' = [i \in 1..Len(r) |-> r[i].line]
        /\ ensured' = \A i \in 1..Len(r) : r[i].ensured
        /\ nops' = nops + 1
        /\ UNCHANGED <<window, vc, curses, lnav_config>>

NextCall ==
    \/ \E index \in 0..Len(al.al_string), other \in Fragments : Insert(index, other)
    \/ \E start \in 0..Len(al.al_string), len \in 0..Len(al.al_string) :
            Subline(start, len)
    \/ SplitLines

SpecCall == InitCall /\ [][NextCall]_vars

-----------------------------------------------------------------------------
(* SpecRender: one mvwattrline call on a blank row, after view_colors::init *)
(* on an 8-colour terminal.                                                 *)

InitRender ==
    /\ al \in RenderLines(MaxGlyphs)
    /\ call = NoCall
    /\ ret = <<>>
    /\ ensured = TRUE
    /\ nops = 0
    /\ window = NoWindow
    /\ lnav_config = config(FALSE, FALSE)
    /\ LET s == init(view_colors, terminal(TRUE, 8, 64), lnav_config)
       IN  vc = s.vc /\ curses = s.curses

\* view_curses::mvwattrline(window, y, x, al, lr, base_role)
Mvwattrline(x, lr, base_role, ub) ==
    /\ call.op = "init"
    /\ window' = mvwattrline(window.cells, x, al, lr, attrs_for_role(vc, base_role), ub)
    /\ al' = [al EXCEPT !.al_attrs = stable_sort(@)]
    /\ call' = [op |-> "mvwattrline", self |-> al, x |-> x, lr |-> lr,
                base_role |-> base_role]
    /\ nops' = nops + 1
    /\ UNCHANGED <<ret, ensured, vc, curses, lnav_config>>

NextRender ==
    \E x \in 0..MaxX, lr \in VisibleRanges, base_role \in {"VCR_TEXT", "VCR_SEARCH"},
       ub \in {"crash", "overrun"} :
        Mvwattrline(x, lr, base_role, ub)

SpecRender == InitRender /\ [][NextRender]_vars

-----------------------------------------------------------------------------
(* SpecColors: view_colors::init on a terminal, then configuration reloads  *)
(* and ensure_color_pair calls in any order.                                *)

InitColors ==
    /\ al = NoLine
    /\ call = NoCall
    /\ ret = <<>>
    /\ ensured = TRUE
    /\ nops = 0
    /\ window = NoWindow
    /\ vc = view_colors
    /\ curses \in Terminals
    /\ lnav_config \in Configs

\* view_colors::init()
ViewColorsInit ==
    LET s == init(vc, curses, lnav_config)
    IN  /\ ~vc.initialized
        /\ vc' = s.vc
        /\ curses' = s.curses
        /\ call' = [op |-> "view_colors::init"]
        /\ ret' = <<>>
        /\ UNCHANGED <<al, ensured, nops, window, lnav_config>>

\* color_listener::reload_config(): ret collects the role tables that
\* reloads made one right after the other leave.
ReloadConfig ==
    LET s == init_roles(vc, curses, lnav_config, 0)
    IN  /\ vc.initialized
        /\ nops < MaxColorOps
        /\ vc' = s.vc
        /\ curses' = s.curses
        /\ call' = [op |-> "reload_config"]
        /\ ret' = IF call.op = "reload_config"
                  THEN Append(ret, s.vc.vc_role_colors)
                  ELSE <<s.vc.vc_role_colors>>
        /\ nops' = nops + 1
        /\ UNCHANGED <<al, ensured, window, lnav_config>>

\* ret = view_colors::singleton().ensure_color_pair(rgb_fg, rgb_bg)
EnsureColorPair(rgb_fg, rgb_bg) ==
    LET r == ensure_color_pair(colors_state(vc, curses, 0), lnav_config, rgb_fg, rgb_bg)
    IN  /\ vc.initialized
        /\ nops < MaxColorOps
        /\ vc' = r.state.vc
        /\ curses' = r.state.curses
        /\ call' = [op |-> "ensure_color_pair", rgb_fg |-> rgb_fg, rgb_bg |-> rgb_bg]
        /\ ret' = <<r.attr>>
        /\ nops' = nops + 1
        /\ UNCHANGED <<al, ensured, window, lnav_config>>

\* ret = xterm_colors.match_color(lab_color(e's RGB)) for palette entry e
MatchColor(e) ==
    /\ nops < MaxColorOps
    /\ call' = [op |-> "match_color", index |-> e]
    /\ ret' = <<match_color(lab_color(xc_palette[e].xc_color))>>
    /\ nops' = nops + 1
    /\ UNCHANGED <<al, ensured, window, vc, curses, lnav_config>>

NextColors ==
    \/ ViewColorsInit
    \/ ReloadConfig
    \/ \E e \in 1..Len(xc_palette) : MatchColor(e)
    \/ \E rgb_fg \in ForegroundColors, rgb_bg \in BackgroundColors :
            EnsureColorPair(rgb_fg, rgb_bg)

SpecColors == InitColors /\ [][NextColors]_vars

-----------------------------------------------------------------------------
(* SpecScenario: a fragment without whitespace appended with word-wrap to a *)
(* single line that is a few columns short of the wrap width.               *)

\* The wrap width, the length of the line and of the fragment.
ScenarioWidth == 80
ScenarioColumn == 75
ScenarioFragLen == 40

\* Lines of n bytes without a newline.
ScenarioLines(n) ==
    {attr_line(Repeat(n, "a"), <<>>),
     attr_line(Repeat(n - 1, "a") \o <<" ">>, <<>>)}

\* Fragments of n bytes without whitespace: one word, and two words that a
\* '.' separates.
ScenarioFragments(n) ==
    {attr_line(Repeat(n, "a"), <<>>),
     attr_line(Repeat(n, "0"), <<>>),
     attr_line(Repeat(n \div 2, "a") \o <<".">> \o Repeat(n - (n \div 2) - 1, "b"), <<>>)}

InitScenario ==
    /\ al \in ScenarioLines(ScenarioColumn)
    /\ call = NoCall
    /\ ret = <<>>
    /\ ensured = TRUE
    /\ nops = 0
    /\ window = NoWindow
    /\ vc = view_colors
    /\ curses = terminal(TRUE, 8, 64)
    /\ lnav_config = config(FALSE, FALSE)

\* al.insert(index, other, &tws) with index the end of the line; ensured
\* tells whether the wrap pass came to its end.
ScenarioInsert(other, tws) ==
    LET index == Len(al.al_string)
        r == insert(al, index, other, tws)
    IN  /\ call.op = "init"
        /\ al' = r.line
        /\ call' = Call("insert", NoLine, index, Len(other.al_string), other, tws, r.breaks)
        /\ ensured' = r.done
        /\ nops' = nops + 1
        /\ UNCHANGED <<ret, window, vc, curses, lnav_config>>

NextScenario ==
    \E other \in ScenarioFragments(ScenarioFragLen), indent \in 0..(ScenarioWidth - 1) :
        ScenarioInsert(other, text_wrap_settings(ScenarioWidth, indent))

SpecScenario == InitScenario /\ [][NextScenario]_vars

-----------------------------------------------------------------------------
(* SpecWrap: insert with a wrap_config, the wrap loop (lines 277-337) taken *)
(* one iteration at a time.                                                 *)

\* The widest wrap width, and the longest line and fragment, of SpecWrap.
MaxWrapWidth == 2
MaxWrapLen == 2
MaxWrapFrag == 1

\* The bytes of the lines: a word character, a space, a newline and a
\* character that is neither a word character nor whitespace.
WrapChars == {"a", " ", "\n", "-"}

\* Every width and indent with 0 <= indent <= width.
AnyWrapConfigs ==
    UNION {{text_wrap_settings(width, indent) : indent \in 0..width} :
           width \in 0..MaxWrapWidth}

\* The wrap pass of a call: lines 259-275 done, the loop at its test, with
\* todo the number of bytes from index to the end of the line.
Wrap(op, tws, start_pos, avail, todo, breaks) ==
    [op |-> op, tws |-> tws, start_pos |-> start_pos, avail |-> avail,
     todo |-> todo, breaks |-> breaks]

InitWrap ==
    /\ al \in {attr_line(str, <<>>) : str \in Strings(WrapChars, MaxWrapLen)}
    /\ call = NoCall
    /\ ret = <<>>
    /\ ensured = TRUE
    /\ nops = 0
    /\ window = NoWindow
    /\ vc = view_colors
    /\ curses = terminal(TRUE, 8, 64)
    /\ lnav_config = config(FALSE, FALSE)

\* al.insert(index, other, &tws) up to the while of line 277.
WrapInsert(index, other, tws) ==
    LET s == splice(al, index, other)
        w0 == wrap_start(s.al_string, index, tws)
    IN  /\ call.op = "init"
        /\ index <= Len(al.al_string)
        /\ al' = s
        /\ call' = IF Len(s.al_string) > tws.tws_width
                   THEN Wrap("wrap", tws, w0.start_pos, w0.avail,
                             Len(s.al_string) - index, 0)
                   ELSE Wrap("return", tws, index, 0, Len(s.al_string) - index, 0)
        /\ UNCHANGED <<ret, ensured, nops, window, vc, curses, lnav_config>>

\* One iteration of the while of lines 277-337; nops counts the iterations.
WrapStep ==
    LET n == wrap_step([line |-> al, start_pos |-> call.start_pos,
                        avail |-> call.avail, breaks |-> call.breaks], call.tws)
    IN  /\ call.op = "wrap"
        /\ call.start_pos < Len(al.al_string)
        /\ nops < MaxWrapSteps
        /\ al' = n.line
        /\ call' = [call EXCEPT !.start_pos = n.start_pos, !.avail = n.avail,
                                !.breaks = n.breaks]
        /\ nops' = nops + 1
        /\ UNCHANGED <<ret, ensured, window, vc, curses, lnav_config>>

\* The test of line 277 fails: insert returns.
WrapReturn ==
    /\ call.op = "wrap"
    /\ call.start_pos >= Len(al.al_string)
    /\ call' = [call EXCEPT !.op = "return"]
    /\ UNCHANGED <<al, ret, ensured, nops, window, vc, curses, lnav_config>>

NextWrap ==
    \/ \E index \in 0..Len(al.al_string),
          other \in {attr_line(str, <<>>) : str \in Strings(WrapChars, MaxWrapFrag)},
          tws \in AnyWrapConfigs :
            WrapInsert(index, other, tws)
    \/ WrapStep
    \/ WrapReturn

SpecWrap == InitWrap /\ [][NextWrap]_vars

\* The loop runs on by itself: an iteration that can be taken is taken.
SpecWrapFair == SpecWrap /\ WF_vars(NextWrap)

-----------------------------------------------------------------------------
(* Properties.                                                              *)

\* C1: after any sequence of insert (with or without wrap settings) and
\* subline calls on a line whose attributes lie within it, every attribute
\* has start >= 0 and, with an end of -1 read as the length of the string,
\* start <= end <= length.
C1_RangesWithinLine == ValidLine(al)

\* A wrapping insert that broke the line, as the last of MaxOps calls, on a
\* line that carries attributes.
C1_Witness ==
    /\ nops = MaxOps
    /\ call.op = "insert" /\ call.tws.present /\ call.breaks > 0
    /\ Len(al.al_attrs) >= 2

Before(lr, index) == lr.lr_end # -1 /\ lr.lr_end < index

Covered(lr, len) == {p \in 0..(len - 1) : lr.lr_start <= p /\ p < resolved_end(lr, len)}

Window(start, len) == start..(start + len - 1)

\* What the specification asks subline to return for the attributes of
\* `line`: one attribute for each that shares a position with the window,
\* over the shared positions, counted from the start of the window.
Clipped(line, start, len) ==
    LET hit == SelectSeq(line.al_attrs,
                   LAMBDA sa : Covered(sa.sa_range, Len(line.al_string))
                                   \cap Window(start, len) # {})
    IN  [k \in 1..Len(hit) |->
            LET lr == hit[k].sa_range
            IN  string_attr(
                    line_range(
                        Max(lr.lr_start, start) - start,
                        Min(resolved_end(lr, Len(line.al_string)), start + len) - start),
                    hit[k].sa_type, hit[k].sa_value)]

\* C3: for a window [start, start+len) within the line, subline returns
\* exactly one attribute for each attribute that shares a position with the
\* window (attributes that enclose the window and open-ended ones included),
\* over the intersection moved left by start, none for the others, and
\* every end returned is <= len, so the ensure() never fails.
C3_SublineClips ==
    call.op = "subline" =>
        /\ ret[1].al_attrs = Clipped(call.self, call.index, call.len)
        /\ \A k \in 1..Len(ret[1].al_attrs) :
                ret[1].al_attrs[k].sa_range.lr_end <= call.len
        /\ ensured

\* A subline whose window is strictly enclosed by one attribute and reached
\* by an open-ended one.
C3_Witness ==
    /\ call.op = "subline" /\ call.len > 0
    /\ Len(call.self.al_attrs) = 2
    /\ call.self.al_attrs[1].sa_range.lr_start < call.index
    /\ call.self.al_attrs[1].sa_range.lr_end > call.index + call.len
    /\ call.self.al_attrs[2].sa_range.lr_end = -1
    /\ Len(ret[1].al_attrs) = 2

RECURSIVE Count(_, _)
Count(str, ch) ==
    IF str = <<>> THEN 0
    ELSE (IF Head(str) = ch THEN 1 ELSE 0) + Count(Tail(str), ch)

\* The strings of `lines` joined with a newline between them.
RECURSIVE Join(_)
Join(lines) ==
    IF Len(lines) = 0 THEN <<>>
    ELSE IF Len(lines) = 1 THEN lines[1].al_string
    ELSE lines[1].al_string \o <<"\n">> \o Join(Tail(lines))

\* C4: split_lines leaves the line unchanged and produces one entry per
\* newline plus one, an empty last entry after a final newline included;
\* the entries' strings joined with "\n" give the line's string back.
C4_SplitJoin ==
    call.op = "split_lines" =>
        /\ al = call.self
        /\ Len(ret) = Count(call.self.al_string, "\n") + 1
        /\ Join(ret) = call.self.al_string

\* split_lines of a line with text that ends with a newline.
C4_Witness ==
    /\ call.op = "split_lines"
    /\ Len(call.self.al_string) >= 2
    /\ call.self.al_string[Len(call.self.al_string)] = "\n"
    /\ Len(ret) >= 2
    /\ ret[Len(ret)].al_string = <<>>

WholeLine == call.op = "subline" /\ call.index = 0 /\ call.len = Len(call.self.al_string)

NonEmpty(sa, len) == sa.sa_range.lr_start < resolved_end(sa.sa_range, len)

\* C5 as stated, on the lines whose attributes each cover at least one
\* byte: subline(0, length(L)) returns L's string and L's attributes
\* unchanged, ends of -1 included.
C5_Original ==
    (WholeLine /\ \A k \in 1..Len(call.self.al_attrs) :
                    NonEmpty(call.self.al_attrs[k], Len(call.self.al_string)))
        => ret[1] = call.self

\* The attributes that cover at least one byte, each with its end resolved.
Resolved(line) ==
    LET ne == SelectSeq(line.al_attrs,
                  LAMBDA sa : NonEmpty(sa, Len(line.al_string)))
    IN  [k \in 1..Len(ne) |->
            [ne[k] EXCEPT !.sa_range.lr_end =
                resolved_end(ne[k].sa_range, Len(line.al_string))]]

\* C5 amended: subline(0, length(L)) returns L's string and, in L's order,
\* every attribute of L that covers at least one byte, with its start, kind
\* and value unchanged and its end resolved (an end of -1 comes back as
\* length(L)).
C5_WholeLine ==
    WholeLine =>
        /\ ret[1].al_string = call.self.al_string
        /\ Resolved(ret[1]) = Resolved(call.self)
        /\ \A k \in 1..Len(ret[1].al_attrs) : ret[1].al_attrs[k].sa_range.lr_end # -1

\* subline(0, length(L)) of a line with an open-ended attribute and one with
\* an explicit end.
C5_Witness ==
    /\ WholeLine
    /\ Len(call.self.al_string) >= 2
    /\ Len(call.self.al_attrs) = 2
    /\ call.self.al_attrs[1].sa_range.lr_end = -1
    /\ call.self.al_attrs[2].sa_range = line_range(1, 2)
    /\ Len(ret[1].al_attrs) = 2


\* The calls of SpecRender that have been made.
Rendered == call.op = "mvwattrline"

\* C6: while a line is rendered into a visible range of width W, no STYLE,
\* GRAPHIC, FOREGROUND or BACKGROUND attribute writes a cell or an entry of
\* the foreground/background arrays at a column outside [0, W), and none
\* writes with a start index greater than its end index.
C6_ClippedWrites ==
    Rendered =>
        LET W == call.lr.lr_end - call.lr.lr_start
        IN  \A i \in 1..Len(window.applied) :
                LET ap == window.applied[i]
                IN  /\ ap.cols \subseteq 0..(W - 1)
                    /\ ap.filled =>
                        /\ 0 <= ap.range.lr_start
                        /\ ap.range.lr_start <= ap.range.lr_end
                        /\ ap.range.lr_end <= W

\* The line of the call begins with a 3-byte UTF-8 character and is drawn
\* from display column 0.
ThreeByteFirst ==
    /\ Rendered
    /\ call.lr.lr_start = 0
    /\ Len(call.self.al_string) >= 3
    /\ utf8_offset(call.self.al_string[1]) = -2

\* A STYLE attribute that starts right after the first 3 bytes.
StyleAfterThree(ap) ==
    /\ ap.sa.sa_type = VC_STYLE
    /\ ap.sa.sa_range.lr_start = 3

SetMin(S) == CHOOSE m \in S : \A n \in S : m <= n

\* C7 as stated: the style begins at the column one less than the byte
\* offset of the attribute.
C7_Original ==
    ThreeByteFirst =>
        \A i \in 1..Len(window.applied) :
            LET ap == window.applied[i]
            IN  (StyleAfterThree(ap) /\ ap.cols # {}) =>
                    SetMin(ap.cols) = ap.sa.sa_range.lr_start - 1

\* C7: when a line that begins with a 3-byte UTF-8 character is rendered
\* from column 0 with a STYLE attribute that starts at byte 3, the style
\* begins at display column 1, two less than the byte offset; when the
\* visible range takes the whole line, the cell styled first is the one
\* that shows the character at byte 3.
C7_StyleColumn ==
    ThreeByteFirst =>
        \A i \in 1..Len(window.applied) :
            LET ap == window.applied[i]
                W == call.lr.lr_end
                str == call.self.al_string
            IN  StyleAfterThree(ap) =>
                    /\ ap.cols # {} => SetMin(ap.cols) = ap.sa.sa_range.lr_start - 2
                    /\ (/\ W >= Len(str)
                        /\ Len(str) > 3 /\ str[4] = 97
                        /\ ap.sa.sa_range.lr_end \in {-1, 4}) =>
                            /\ ap.cols # {}
                            /\ window.cells[call.x + SetMin(ap.cols) + 1].ch = <<97>>

C7_Witness ==
    /\ ThreeByteFirst
    /\ call.self.al_string = <<226, 130, 172, 97>>
    /\ window.cells[call.x + 1 + 1].ch = <<97>>
    /\ \E i \in 1..Len(window.applied) :
            /\ StyleAfterThree(window.applied[i])
            /\ window.applied[i].cols # {}
            /\ SetMin(window.applied[i].cols) = 1

\* The first slot after the grids view_colors::init sets up.
ReservedEnd ==
    IF curses.has_colors /\ curses.COLORS = 256
    THEN VC_ANSI_END + extended_count ELSE VC_ANSI_END

\* C8: on a terminal with more than 64 colour pairs, whatever init,
\* reload_config (init_roles) and ensure_color_pair calls are made, every
\* slot attr_for_colors hands to init_pair lies after the reserved block
\* and is greater than every slot it handed out before.
C8_SlotsGrow ==
    curses.COLOR_PAIRS > 64 =>
        \A i \in 1..Len(curses.allocs) :
            /\ curses.allocs[i] >= ReservedEnd
            /\ \A j \in 1..(i - 1) : curses.allocs[j] < curses.allocs[i]

\* C9: with the configuration unchanged, a second reload_config right after
\* the first leaves the role table (style bits and colour-pair reference of
\* every role) the first one left, whatever ensure_color_pair calls came
\* before.
C9_ReloadIdempotent ==
    call.op = "reload_config" =>
        \A i \in 1..Len(ret) : ret[i] = ret[1]

\* C10: on a terminal with at most 64 colour pairs init_roles and
\* ensure_color_pair call init_pair for no slot, and every attribute they
\* produce, for a role or for the colours given to ensure_color_pair,
\* refers to a pair of the 8x8 ANSI table.
C10_AnsiTableOnly ==
    (curses.COLOR_PAIRS <= 64 /\ vc.initialized) =>
        /\ curses.allocs = <<>>
        /\ \A r \in Roles : vc.vc_role_colors[r].pair \in 0..(VC_ANSI_END - 1)
        /\ call.op = "ensure_color_pair" => ret[1].pair \in 0..(VC_ANSI_END - 1)


\* C11 as stated: match_color on the exact colour of palette entry e returns
\* e's id, for every entry e, entries that share their RGB value included.
C11_Original ==
    call.op = "match_color" => ret = <<xc_palette[call.index].xc_id>>

\* The first entry of the table that has the colour of entry e.
FirstOfColor(e) ==
    CHOOSE i \in 1..e :
        /\ xc_palette[i].xc_color = xc_palette[e].xc_color
        /\ \A j \in 1..(i - 1) : xc_palette[j].xc_color # xc_palette[e].xc_color

\* C11: match_color on the exact colour of palette entry e returns the id of
\* the first entry of the table that has that colour: e's id when no earlier
\* entry shares e's RGB value.
C11_FirstExact ==
    call.op = "match_color" => ret = <<xc_palette[FirstOfColor(call.index)].xc_id>>

\* match_color was asked for the colour of Grey100, which White has too.
C11_Witness ==
    /\ call.op = "match_color"
    /\ xc_palette[call.index].xc_name = "Grey100"
    /\ FirstOfColor(call.index) # call.index
    /\ ret = <<15>>

\* The number of newlines in str.
Newlines(str) == Cardinality({i \in 1..Len(str) : str[i] = "\n"})

\* An all-alphanumeric fragment went in at the end of the line.
OneWord == \A i \in 1..Len(call.other.al_string) : isalnum(call.other.al_string[i])

\* C12: inserting a 40-character fragment without whitespace at index 75 of a
\* 75-character single-line string with a wrap width of 80 puts exactly one
\* newline in, whatever the indent in 0..79.
C12_OneBreak ==
    call.op = "insert" =>
        /\ ensured
        /\ call.breaks = 1
        /\ Newlines(al.al_string) = 1

\* With the indent 5 short of the width the fragment is appended unbroken;
\* with an indent that leaves room for exactly the fragment a second newline
\* follows it.
C12_NoBreakReached ==
    /\ call.op = "insert" /\ ensured /\ OneWord
    /\ call.tws.tws_indent = ScenarioColumn
    /\ Newlines(al.al_string) = 0
    /\ Len(al.al_string) = ScenarioColumn + ScenarioFragLen

C12_TwoBreaksReached ==
    /\ call.op = "insert" /\ ensured /\ OneWord
    /\ call.tws.tws_indent = ScenarioWidth - ScenarioFragLen
    /\ Newlines(al.al_string) = 2

\* Every other indent gives the one-word fragment its one break.
C12_OtherIndents ==
    (call.op = "insert" /\ OneWord
        /\ call.tws.tws_indent \notin {ScenarioColumn, ScenarioWidth - ScenarioFragLen})
    => (ensured /\ call.breaks = 1 /\ Newlines(al.al_string) = 1)

\* The text from start_pos on and the room left: all that an iteration of
\* the wrap loop looks at.
LoopState(line, start_pos, avail) ==
    <<SubSeq(line.al_string, start_pos + 1, Len(line.al_string)), avail>>

\* The loop is at its test, has text left, and its next iteration leaves the
\* text from start_pos on and the room as they are: the iterations repeat.
WrapStuck ==
    /\ call.op = "wrap"
    /\ call.start_pos < Len(al.al_string)
    /\ LET n == wrap_step([line |-> al, start_pos |-> call.start_pos,
                           avail |-> call.avail, breaks |-> call.breaks], call.tws)
       IN  LoopState(n.line, n.start_pos, n.avail)
             = LoopState(al, call.start_pos, call.avail)

\* C13: insert with a wrap_config terminates, for every line, fragment and
\* index and every width and indent with 0 <= indent <= width: the wrap
\* loop gets past a byte of the text within every two iterations, so that it
\* has run at most 2 * todo + 1 of them, and no iteration leaves the loop in
\* the state it found it in (from such a state the loop cannot end).
C13_Terminates ==
    call.op = "wrap" =>
        /\ nops <= 2 * call.todo + 1
        /\ ~WrapStuck

\* The same as a property of the runs: a call that has entered the wrap
\* loop comes to its return.
C13_ReachesReturn == (call.op = "wrap") ~> (call.op = "return")

\* A loop that has run MaxWrapSteps iterations and has text left is one whose
\* iterations repeat, and its indent is the whole width.
C13_CutIsStuck ==
    (call.op = "wrap" /\ nops = MaxWrapSteps /\ call.start_pos < Len(al.al_string))
        => (WrapStuck /\ call.tws.tws_indent = call.tws.tws_width)

\* With room after the indent, two iterations in a row get past a byte of
\* the text: the loop ends within 2 * todo + 1 iterations.
C13_BelowWidth ==
    (call.op \in {"wrap", "return"} /\ call.tws.tws_indent < call.tws.tws_width)
        => nops <= 2 * call.todo + 1

\* A loop whose iterations repeat has been reached.
C13_StuckReached == WrapStuck /\ nops > 2 * call.todo + 1

\* The call recorded a colour and no std::fill of it went wrong.
ColoursRecorded ==
    /\ Rendered
    /\ ~window.crashed /\ ~window.corrupted
    /\ window.has_fg \/ window.has_bg

\* The row as the base paint and the attribute loop of the call left it,
\* before the final colour flatten.
Unflattened ==
    LET exp == expanded(call.self.al_string)
        painted == render_state(base_paint(NoWindow.cells, call.x, call.lr, exp,
                                           attrs_for_role(vc, call.base_role)))
    IN  apply_attrs(painted, stable_sort(call.self.al_attrs), 1,
                    exp.utf_adjustments, call.x, call.lr, "crash").cells

\* The colour pair the arrays hold for column i of the visible range.
FlatPair(i) ==
    ansi_color_pair_index(
        IF window.has_fg THEN window.fg_color[i + 1] ELSE COLOR_WHITE,
        IF window.has_bg THEN window.bg_color[i + 1] ELSE COLOR_BLACK)

\* The final flatten gave the cells from column `from` on the colours of
\* the arrays, kept their style bits and characters, and left the other
\* cells of the row alone.
FlattenedFrom(from) ==
    LET W == call.lr.lr_end - call.lr.lr_start
        before == Unflattened
    IN  /\ window.flattened = from..(from + W - 1)
        /\ \A c \in 0..(Len(window.cells) - 1) :
              IF c \in from..(from + W - 1)
              THEN /\ window.cells[c + 1].attr.pair = FlatPair(c - from)
                   /\ window.cells[c + 1].attr.bits = before[c + 1].attr.bits
                   /\ window.cells[c + 1].ch = before[c + 1].ch
              ELSE window.cells[c + 1] = before[c + 1]

\* C14: when a FOREGROUND or BACKGROUND attribute was recorded, the final
\* flatten overwrites the colour of the cells of the visible range as the base
\* paint laid them out, entry i of the colour arrays going to the cell at
\* screen column x + i for 0 <= i < lr_end - lr_start, whatever lr_start is,
\* and leaves the style bits of those cells as they were.
C14_FlattenColumns == ColoursRecorded => FlattenedFrom(call.x)

\* What the flatten does: entry i goes to the cell at column x + lr_start + i.
C14_FlattenShifted == ColoursRecorded => FlattenedFrom(call.x + call.lr.lr_start)

\* "aa" in red drawn from byte 1 at x = 0: the one visible 'a' is at column
\* 0 in the colours of the role, and the red went to the blank at column 1.
C14_ShiftReached ==
    /\ ColoursRecorded
    /\ call.x = 0 /\ call.lr = line_range(1, 2)
    /\ call.self = attr_line(<<97, 97>>,
                             <<string_attr(line_range(0, -1), VC_FOREGROUND, COLOR_RED)>>)
    /\ window.cells[1] = cell(<<97>>, attrs_for_role(vc, call.base_role))
    /\ window.cells[2] = cell(<<SPACE>>, attr_t({}, ansi_color_pair_index(COLOR_RED, COLOR_BLACK)))

\* Byte offset b of str is not inside a multi-byte sequence.
OnBoundary(str, b) ==
    b \in 0..Len(str) /\ (b < Len(str) => str[b + 1] \div 64 # 2)

\* The display cells the expansion pass emits for the bytes before b.
CellsBefore(str, b) == Len(glyphs(expanded(substr(str, 0, b)).expanded_line))

\* The display column the renderer computes for byte offset b of str.
ColumnOf(str, b) == adjust(expanded(str).utf_adjustments, 1, b, b)

\* The endpoints of the attributes that the attribute loop of the call
\* handled and that fall on character boundaries.
Endpoints ==
    {b \in 0..Len(call.self.al_string) :
        /\ OnBoundary(call.self.al_string, b)
        /\ \E i \in 1..Len(window.applied) :
              LET r == window.applied[i].sa.sa_range
              IN  b = r.lr_start \/ b = r.lr_end}

\* C15: for a rendered line of well-formed UTF-8, tabs, '\r' and '\n', the
\* display column computed for an attribute endpoint at byte offset b on a
\* character boundary (b plus the deltas of the adjustments with origin < b)
\* is the number of display cells the expansion pass emitted for the bytes
\* before b.
C15_DisplayColumn ==
    Rendered =>
        \A b \in Endpoints :
            ColumnOf(call.self.al_string, b) = CellsBefore(call.self.al_string, b)

\* The number of '\r' among the bytes before b.
ReturnsBefore(str, b) == Cardinality({i \in 1..b : str[i] = CR})

\* What the renderer computes: the column is too far right by one for every
\* '\r' before b, for which the expansion pass records no adjustment.
C15_ReturnsCounted ==
    Rendered =>
        \A b \in Endpoints :
            ColumnOf(call.self.al_string, b) =
                CellsBefore(call.self.al_string, b) + ReturnsBefore(call.self.al_string, b)

\* "\ra" with a style on the 'a': the 'a' is shown at column x and the
\* style is laid on column x + 1.
C15_ReturnReached ==
    /\ Rendered
    /\ call.self.al_string = <<CR, 97>>
    /\ call.lr = line_range(0, 2)
    /\ window.cells[call.x + 1].ch = <<97>>
    /\ \E i \in 1..Len(window.applied) :
          /\ window.applied[i].sa.sa_type = VC_STYLE
          /\ window.applied[i].sa.sa_range = line_range(1, 2)
          /\ window.applied[i].cols = {1}

=============================================================================
